---------------------------- MODULE Spec2Model ----------------------------
(***************************************************************************)
(* A state-machine model of src/App.tsx: the App component of the          *)
(* camera/microphone assistant.  The component's React state cells and     *)
(* refs are the program variables; every event handler (button click,      *)
(* promise continuation, SDK callback, timer callback, audio 'ended'       *)
(* event) is one action.  An async handler is split at its await: the      *)
(* part before the await is one action, the continuation another.          *)
(*                                                                         *)
(* Time is counted in whole seconds; the one clock serves as               *)
(* AudioContext.currentTime of the output                                  *)
(* context and as the timer clock.  Text is a sequence of characters, a    *)
(* character a one-letter string (a CJK character is named by its code     *)
(* point, "U505C").                                                        *)
(***************************************************************************)
EXTENDS Integers, Sequences, FiniteSets, TLC

VARIABLES
    \* ---- React state (useState), src/App.tsx:42-45
    status,                 \* AppStatus
    transcriptions,         \* TranscriptionEntry[]
    error,                  \* string | null
    safetyAlert,            \* boolean
    \* ---- refs (useRef), src/App.tsx:52-58
    sessionRef,             \* 0 is null, else the session of invocation i
    frameIntervalRef,       \* 0 is null, else an interval id
    nextStartTimeRef,       \* the playback scheduling cursor
    sourcesRef,             \* Set<AudioBufferSourceNode>, as node ids
    currentInputTransRef,   \* accumulated user text
    currentOutputTransRef,  \* accumulated assistant text
    \* ---- the platform around the component
    mounted,                \* the component is mounted
    now,                    \* the clock (ctx.currentTime, timers)
    starts,                 \* one record per startSession invocation
    liveIntervals,          \* interval ids set and not cleared
    micLive,                \* sessions whose onopen wired the microphone
    decoding,               \* onmessage handlers suspended at the await
    sched,                  \* every source node started, in start order
    stopped,                \* node ids on which stop() was called
    alertTimers,            \* deadlines of the pending setTimeout callbacks
    \* ---- bookkeeping of the run
    epoch,                  \* interruption branches executed so far
    nmsg,                   \* messages delivered to onmessage so far
    nturns                  \* turn-complete commits so far

vars == << status, transcriptions, error, safetyAlert, sessionRef,
           frameIntervalRef, nextStartTimeRef, sourcesRef,
           currentInputTransRef, currentOutputTransRef, mounted, now,
           starts, liveIntervals, micLive, decoding, sched, stopped,
           alertTimers, epoch, nmsg, nturns >>

---------------------------------------------------------------------------
(* Bounds of the model. *)

MaxStarts == 2
MaxMsgs == 1
MaxDur == 2
MaxTurnMsgs == 7
MaxAudioMsgs == 2
MaxInterleaveMsgs == 3
MaxAudioClock == 2
MaxRestarts == 3
MaxAlertMsgs == 2
MaxAlertClock == 6

(* Program constants. *)

HistoryCap == 10
\* setTimeout(..., 3000): three units of one second
AlertDelay == 3

null == "<null>"
IDLE == "IDLE"
CONNECTING == "CONNECTING"
ACTIVE == "ACTIVE"
ERROR == "ERROR"
AppStatus == {IDLE, CONNECTING, ACTIVE, ERROR}

ConnectionErrorText == "Connection error. Please try again."
FailedToStartText == "Failed to start. Check permissions."

---------------------------------------------------------------------------
(* Text. *)

UpperCase == << "A","B","C","D","E","F","G","H","I","J","K","L","M",
                "N","O","P","Q","R","S","T","U","V","W","X","Y","Z" >>
LowerCase == << "a","b","c","d","e","f","g","h","i","j","k","l","m",
                "n","o","p","q","r","s","t","u","v","w","x","y","z" >>

ToLowerChar(c) ==
    IF \E i \in 1..Len(UpperCase) : UpperCase[i] = c
    THEN LowerCase[CHOOSE i \in 1..Len(UpperCase) : UpperCase[i] = c]
    ELSE c

\* String.prototype.toLowerCase
toLowerCase(text) == [i \in 1..Len(text) |-> ToLowerChar(text[i])]

\* String.prototype.includes
includes(text, k) ==
    \E i \in 0..(Len(text) - Len(k)) : SubSeq(text, i + 1, i + Len(k)) = k

dangerKeywords ==
    << << "U5371", "U9669" >>,
       << "U6CE8", "U610F" >>,
       << "U8B66", "U544A" >>,
       << "U505C" >>,
       << "d","a","n","g","e","r" >>,
       << "w","a","r","n","i","n","g" >>,
       << "s","t","o","p" >>,
       << "c","a","u","t","i","o","n" >>,
       << "U7D27", "U6025", "U8B66", "U544A" >> >>

\* The fragment is compared as written, without lowering its case.
IsDangerCaseSensitive(text) ==
    \E j \in 1..Len(dangerKeywords) : includes(text, dangerKeywords[j])

\* dangerKeywords.some(k => text.toLowerCase().includes(k))
IsDanger(text) ==
    \E j \in 1..Len(dangerKeywords) :
        includes(toLowerCase(text), dangerKeywords[j])

---------------------------------------------------------------------------
(* Messages of the remote session.  An optional field is a sequence of      *)
(* length 0 (absent) or 1; audio is 0 (no inline data) or the duration of   *)
(* the chunk the data decodes to.                                           *)

Msg(i, o, t, a, x) ==
    [ inputTranscription |-> i, outputTranscription |-> o,
      turnComplete |-> t, audio |-> a, interrupted |-> x ]

NoMsg == Msg(<< >>, << >>, FALSE, 0, FALSE)

Txt_hi == << "h","i" >>
Txt_ok == << "o","k" >>
Txt_STOP == << "S","T","O","P" >>
Txt_Stop == << "S","t","o","p" >>
Txt_st == << "s","t" >>
Txt_op == << "o","p" >>
Txt_ting == << "U505C" >>
Txt_empty == << >>

Max(a, b) == IF a >= b THEN a ELSE b

---------------------------------------------------------------------------
(* Array.prototype.slice(-n): the last n elements, all when there are fewer. *)

\* slice(0, n): the first n elements are kept instead of the last n.
SliceFirst(s, n) == SubSeq(s, 1, IF Len(s) <= n THEN Len(s) ELSE n)

SliceLast(s, n) ==
    IF Len(s) <= n THEN s ELSE SubSeq(s, Len(s) - n + 1, Len(s))

\* The pair is appended and nothing is dropped.
CommitTurnUntrimmed(prev, userText, assistantText) ==
    prev \o << [role |-> "user", text |-> userText],
               [role |-> "assistant", text |-> assistantText] >>

\* The pair is appended assistant first.
CommitTurnSwapped(prev, userText, assistantText) ==
    SliceLast(prev \o << [role |-> "assistant", text |-> assistantText],
                         [role |-> "user", text |-> userText] >>,
              HistoryCap)

\* The pair is appended and the first ten entries are kept.
CommitTurnKeepFirst(prev, userText, assistantText) ==
    SliceFirst(prev \o << [role |-> "user", text |-> userText],
                          [role |-> "assistant", text |-> assistantText] >>,
               HistoryCap)

\* The pair is appended and an odd number of entries, nine, is kept.
CommitTurnKeepNine(prev, userText, assistantText) ==
    SliceLast(prev \o << [role |-> "user", text |-> userText],
                         [role |-> "assistant", text |-> assistantText] >>,
              HistoryCap - 1)

\* setTranscriptions(prev => [...prev, {user}, {assistant}].slice(-10))
CommitTurn(prev, userText, assistantText) ==
    SliceLast(prev \o << [role |-> "user", text |-> userText],
                         [role |-> "assistant", text |-> assistantText] >>,
              HistoryCap)

\* The fragment takes the place of the accumulated text.
AccumulateReplace(acc, field) ==
    IF field # << >> THEN field[1] ELSE acc

\* currentInputTransRef.current += ...text (and the same for the output
\* channel), when the message carries the field.
Accumulate(acc, field) ==
    IF field # << >> THEN acc \o field[1] ELSE acc

\* The cursor is set to the clock even when it is ahead of the clock.
ScheduleAtClock(cursor, clock) == clock

\* Math.max(nextStartTimeRef.current, ctx.currentTime)
ScheduleAt(cursor, clock) == Max(cursor, clock)

\* The message is stored as it comes, without the fallback text.
CatchMessageNoFallback(message) == message

\* err.message || 'Failed to start. Check permissions.'
CatchMessage(message) ==
    IF message # null /\ message # "" THEN message ELSE FailedToStartText

---------------------------------------------------------------------------
(* stopAll, as a function of the cells it reads and writes. *)

Cur ==
    [ frameIntervalRef |-> frameIntervalRef, liveIntervals |-> liveIntervals,
      sessionRef |-> sessionRef, sourcesRef |-> sourcesRef,
      stopped |-> stopped, status |-> status, safetyAlert |-> safetyAlert ]

\* The sources are stopped but the set is not cleared, and the alert is kept.
stopAllPartial(c) ==
    [ frameIntervalRef |-> 0,
      liveIntervals |-> c.liveIntervals \ {c.frameIntervalRef},
      sessionRef |-> 0,
      sourcesRef |-> c.sourcesRef,
      stopped |-> c.stopped \cup c.sourcesRef,
      status |-> IDLE,
      safetyAlert |-> c.safetyAlert ]

\* The teardown ends in the enumeration's fourth value instead of idle.
stopAllToError(c) ==
    [ frameIntervalRef |-> 0,
      liveIntervals |-> c.liveIntervals \ {c.frameIntervalRef},
      sessionRef |-> 0,
      sourcesRef |-> {},
      stopped |-> c.stopped \cup c.sourcesRef,
      status |-> ERROR,
      safetyAlert |-> FALSE ]

stopAll(c) ==
    [ frameIntervalRef |-> IF c.frameIntervalRef # 0 THEN 0 ELSE c.frameIntervalRef,
      liveIntervals |-> IF c.frameIntervalRef # 0
                        THEN c.liveIntervals \ {c.frameIntervalRef}
                        ELSE c.liveIntervals,
      sessionRef |-> IF c.sessionRef # 0 THEN 0 ELSE c.sessionRef,
      sourcesRef |-> {},
      stopped |-> c.stopped \cup c.sourcesRef,
      status |-> IDLE,
      safetyAlert |-> FALSE ]

\* The cells stopAll writes take the values stopAll gives them.
RunStopAll ==
    LET r == stopAll(Cur) IN
    /\ frameIntervalRef' = r.frameIntervalRef
    /\ liveIntervals' = r.liveIntervals
    /\ sessionRef' = r.sessionRef
    /\ sourcesRef' = r.sourcesRef
    /\ stopped' = r.stopped
    /\ status' = r.status
    /\ safetyAlert' = r.safetyAlert

Invocations == 1..Len(starts)

\* The session of invocation i has opened and the continuation of
\* `await sessionPromise` has not run yet: the promise resolves with the
\* open, so the continuation runs before any other handler.
Opening(i) == starts[i].pc = "connect" /\ starts[i].conn = "open"

\* A connection between its error event and the close event that follows it
\* in the same task.
Errored(i) == starts[i].conn = "errored"

\* Any handler may run: the component is mounted and nothing is half-way.
Ready == mounted /\ \A i \in Invocations : ~Errored(i) /\ ~Opening(i)

---------------------------------------------------------------------------
Init ==
    /\ status = IDLE
    /\ transcriptions = << >>
    /\ error = null
    /\ safetyAlert = FALSE
    /\ sessionRef = 0
    /\ frameIntervalRef = 0
    /\ nextStartTimeRef = 0
    /\ sourcesRef = {}
    /\ currentInputTransRef = << >>
    /\ currentOutputTransRef = << >>
    /\ mounted = TRUE
    /\ now = 0
    /\ starts = << >>
    /\ liveIntervals = {}
    /\ micLive = {}
    /\ decoding = {}
    /\ sched = << >>
    /\ stopped = {}
    /\ alertTimers = << >>
    /\ epoch = 0
    /\ nmsg = 0
    /\ nturns = 0

---------------------------------------------------------------------------
(* startSession: lines 74-92 up to the first await. *)

StartSession ==
    /\ Ready
    /\ status = IDLE                 \* the start button is shown and enabled
    /\ status' = CONNECTING
    /\ error' = null
    /\ starts' = Append(starts, [pc |-> "media", conn |-> "none"])
    /\ UNCHANGED << transcriptions, safetyAlert, sessionRef, frameIntervalRef,
                    nextStartTimeRef, sourcesRef, currentInputTransRef,
                    currentOutputTransRef, mounted, now, liveIntervals,
                    micLive, decoding, sched, stopped, alertTimers, epoch,
                    nmsg, nturns >>

(* getUserMedia resolves: ai.live.connect is called and its promise awaited. *)
GetUserMediaResolve(i) ==
    /\ Ready
    /\ i \in Invocations /\ starts[i].pc = "media"
    /\ starts' = [starts EXCEPT ![i] = [pc |-> "connect", conn |-> "connecting"]]
    /\ UNCHANGED << status, transcriptions, error, safetyAlert, sessionRef,
                    frameIntervalRef, nextStartTimeRef, sourcesRef,
                    currentInputTransRef, currentOutputTransRef, mounted, now,
                    liveIntervals, micLive, decoding, sched, stopped,
                    alertTimers, epoch, nmsg, nturns >>

(* The catch block, lines 204-207. *)
Catch(i, message, conn) ==
    /\ error' = CatchMessage(message)
    /\ status' = IDLE
    /\ starts' = [starts EXCEPT ![i] = [pc |-> "failed", conn |-> conn]]
    /\ UNCHANGED << transcriptions, safetyAlert, sessionRef, frameIntervalRef,
                    nextStartTimeRef, sourcesRef, currentInputTransRef,
                    currentOutputTransRef, mounted, now, liveIntervals,
                    micLive, decoding, sched, stopped, alertTimers, epoch,
                    nmsg, nturns >>

(* getUserMedia rejects (permission denied, no device). *)
GetUserMediaReject(i, message) ==
    /\ Ready
    /\ i \in Invocations /\ starts[i].pc = "media"
    /\ Catch(i, message, "none")

(* The connection attempt rejects: the session never opens. *)
ConnectReject(i, message) ==
    /\ Ready
    /\ i \in Invocations /\ starts[i].pc = "connect"
    /\ starts[i].conn = "connecting"
    /\ Catch(i, message, "closed")

(* onopen, lines 105-144. *)
OnOpen(i) ==
    /\ Ready
    /\ i \in Invocations /\ starts[i].conn = "connecting"
    /\ starts' = [starts EXCEPT ![i].conn = "open"]
    /\ status' = ACTIVE
    /\ micLive' = micLive \cup {i}
    /\ frameIntervalRef' = i
    /\ liveIntervals' = liveIntervals \cup {i}
    /\ UNCHANGED << transcriptions, error, safetyAlert, sessionRef,
                    nextStartTimeRef, sourcesRef, currentInputTransRef,
                    currentOutputTransRef, mounted, now, decoding, sched,
                    stopped, alertTimers, epoch, nmsg, nturns >>

(* sessionRef.current = await sessionPromise, line 203. *)
ConnectResolve(i) ==
    /\ mounted
    /\ i \in Invocations /\ Opening(i)
    /\ sessionRef' = i
    /\ starts' = [starts EXCEPT ![i].pc = "done"]
    /\ UNCHANGED << status, transcriptions, error, safetyAlert,
                    frameIntervalRef, nextStartTimeRef, sourcesRef,
                    currentInputTransRef, currentOutputTransRef, mounted, now,
                    liveIntervals, micLive, decoding, sched, stopped,
                    alertTimers, epoch, nmsg, nturns >>

---------------------------------------------------------------------------
(* The callers of stopAll. *)

StopButton ==
    /\ Ready
    /\ status = ACTIVE               \* the stop button is shown
    /\ RunStopAll
    /\ UNCHANGED << transcriptions, error, nextStartTimeRef,
                    currentInputTransRef, currentOutputTransRef, mounted, now,
                    starts, micLive, decoding, sched, alertTimers, epoch,
                    nmsg, nturns >>

(* onerror, lines 193-196.  The close of the errored connection follows    *)
(* before anything else runs.                                              *)
OnError(i) ==
    /\ Ready
    /\ i \in Invocations /\ starts[i].conn \in {"connecting", "open"}
    /\ starts' = [starts EXCEPT ![i].conn = "errored"]
    /\ error' = ConnectionErrorText
    /\ RunStopAll
    /\ UNCHANGED << transcriptions, nextStartTimeRef, currentInputTransRef,
                    currentOutputTransRef, mounted, now, micLive, decoding,
                    sched, alertTimers, epoch, nmsg, nturns >>

(* onclose, lines 197-199. *)
OnClose(i) ==
    /\ mounted
    /\ i \in Invocations /\ starts[i].conn \in {"connecting", "open", "errored"}
    /\ \A j \in Invocations : ~Opening(j) /\ (Errored(j) => j = i)
    /\ starts' = [starts EXCEPT ![i].conn = "closed"]
    /\ RunStopAll
    /\ UNCHANGED << transcriptions, error, nextStartTimeRef,
                    currentInputTransRef, currentOutputTransRef, mounted, now,
                    micLive, decoding, sched, alertTimers, epoch, nmsg,
                    nturns >>

(* The effect cleanup, lines 210-212.  The component is the root of the    *)
(* page: nothing is modelled after it is gone.                             *)
Unmount ==
    /\ Ready
    /\ mounted' = FALSE
    /\ RunStopAll
    /\ UNCHANGED << transcriptions, error, nextStartTimeRef,
                    currentInputTransRef, currentOutputTransRef, now, starts,
                    micLive, decoding, sched, alertTimers, epoch, nmsg,
                    nturns >>

---------------------------------------------------------------------------
(* onmessage, lines 145-192. *)

\* The sources are stopped and dropped but the cursor keeps its value.
InterruptedKeepCursor(cursor, sources, stops) ==
    [ nextStartTimeRef |-> cursor, sourcesRef |-> {},
      stopped |-> stops \cup sources ]

\* The interrupted branch, lines 187-191.
Interrupted(cursor, sources, stops) ==
    [ nextStartTimeRef |-> 0, sourcesRef |-> {},
      stopped |-> stops \cup sources ]

\* A handler suspended at the await sees another handler touch the cursor.
Disturb(h) == [h EXCEPT !.clean = FALSE]

\* A handler suspended at the await sees the interrupted branch run for a
\* message that was delivered after its own.
Overtake(h) == [h EXCEPT !.clean = FALSE, !.cut = TRUE]

(* The handler up to its await (line 177), or to its end when the message  *)
(* carries no audio.                                                       *)
OnMessage(s, m) ==
    /\ Ready
    /\ s \in Invocations /\ starts[s].conn = "open"
    /\ LET inAcc == Accumulate(currentInputTransRef, m.inputTranscription)
           outAcc == Accumulate(currentOutputTransRef, m.outputTranscription)
           danger == /\ m.outputTranscription # << >>
                     /\ IsDanger(m.outputTranscription[1])
       IN
       /\ safetyAlert' = (danger \/ safetyAlert)
       /\ alertTimers' = IF danger THEN Append(alertTimers, now + AlertDelay)
                                   ELSE alertTimers
       /\ IF m.turnComplete
          THEN /\ transcriptions' = CommitTurn(transcriptions, inAcc, outAcc)
               /\ currentInputTransRef' = << >>
               /\ currentOutputTransRef' = << >>
               /\ nturns' = nturns + 1
          ELSE /\ currentInputTransRef' = inAcc
               /\ currentOutputTransRef' = outAcc
               /\ UNCHANGED << transcriptions, nturns >>
    /\ IF m.audio # 0
       THEN /\ nextStartTimeRef' = ScheduleAt(nextStartTimeRef, now)
            /\ decoding' =
                 {Disturb(h) : h \in decoding} \cup
                 { [ mid |-> nmsg + 1, sid |-> s, msg |-> m,
                     rcvClock |-> now, rcvCursor |-> nextStartTimeRef,
                     rcvEpoch |-> epoch, clean |-> TRUE, cut |-> FALSE ] }
            /\ UNCHANGED << sourcesRef, stopped, epoch >>
       ELSE IF m.interrupted
       THEN LET r == Interrupted(nextStartTimeRef, sourcesRef, stopped) IN
            /\ nextStartTimeRef' = r.nextStartTimeRef
            /\ sourcesRef' = r.sourcesRef
            /\ stopped' = r.stopped
            /\ epoch' = epoch + 1
            /\ decoding' = {Overtake(h) : h \in decoding}
       ELSE UNCHANGED << nextStartTimeRef, sourcesRef, stopped, epoch,
                         decoding >>
    /\ nmsg' = nmsg + 1
    /\ UNCHANGED << status, error, sessionRef, frameIntervalRef, mounted, now,
                    starts, liveIntervals, micLive, sched >>

(* The handler after its await, lines 178-191: the decoded buffer is       *)
(* started at the cursor, the cursor advanced, the node recorded; then the *)
(* interrupted branch.                                                     *)
DecodeDone(h) ==
    /\ Ready
    /\ h \in decoding
    /\ LET id == Len(sched) + 1
           node == [ when |-> nextStartTimeRef, dur |-> h.msg.audio,
                     at |-> now, mid |-> h.mid, sid |-> h.sid,
                     rcvClock |-> h.rcvClock, rcvCursor |-> h.rcvCursor,
                     rcvEpoch |-> h.rcvEpoch, clean |-> h.clean,
                     schedEpoch |-> epoch, interrupted |-> h.msg.interrupted,
                     cut |-> h.cut ]
           cursor == nextStartTimeRef + h.msg.audio
           sources == sourcesRef \cup {id}
           r == Interrupted(cursor, sources, stopped)
       IN
       /\ sched' = Append(sched, node)
       /\ decoding' =
            { IF h.msg.interrupted /\ g.mid < h.mid THEN Overtake(g)
                                                    ELSE Disturb(g) :
              g \in decoding \ {h} }
       /\ IF h.msg.interrupted
          THEN /\ nextStartTimeRef' = r.nextStartTimeRef
               /\ sourcesRef' = r.sourcesRef
               /\ stopped' = r.stopped
               /\ epoch' = epoch + 1
          ELSE /\ nextStartTimeRef' = cursor
               /\ sourcesRef' = sources
               /\ UNCHANGED << stopped, epoch >>
    /\ UNCHANGED << status, transcriptions, error, safetyAlert, sessionRef,
                    frameIntervalRef, currentInputTransRef,
                    currentOutputTransRef, mounted, now, starts,
                    liveIntervals, micLive, alertTimers, nmsg, nturns >>

\* When a started node falls silent: a start time already past plays at once.
PlayEnd(n) == Max(sched[n].when, sched[n].at) + sched[n].dur

(* The 'ended' listener, line 181. *)
SourceEnded(n) ==
    /\ Ready
    /\ n \in sourcesRef
    /\ now >= PlayEnd(n)
    /\ sourcesRef' = sourcesRef \ {n}
    /\ UNCHANGED << status, transcriptions, error, safetyAlert, sessionRef,
                    frameIntervalRef, nextStartTimeRef, currentInputTransRef,
                    currentOutputTransRef, mounted, now, starts,
                    liveIntervals, micLive, decoding, sched, stopped,
                    alertTimers, epoch, nmsg, nturns >>

(* The setTimeout callback, line 157: the oldest pending timer fires once  *)
(* its delay has passed.                                                   *)
AlertTimeout ==
    /\ Ready
    /\ alertTimers # << >>
    /\ now >= Head(alertTimers)
    /\ safetyAlert' = FALSE
    /\ alertTimers' = Tail(alertTimers)
    /\ UNCHANGED << status, transcriptions, error, sessionRef,
                    frameIntervalRef, nextStartTimeRef, sourcesRef,
                    currentInputTransRef, currentOutputTransRef, mounted, now,
                    starts, liveIntervals, micLive, decoding, sched, stopped,
                    epoch, nmsg, nturns >>

(* One second passes. *)
Tick ==
    /\ Ready
    /\ now' = now + 1
    /\ UNCHANGED << status, transcriptions, error, safetyAlert, sessionRef,
                    frameIntervalRef, nextStartTimeRef, sourcesRef,
                    currentInputTransRef, currentOutputTransRef, mounted,
                    starts, liveIntervals, micLive, decoding, sched, stopped,
                    alertTimers, epoch, nmsg, nturns >>

---------------------------------------------------------------------------
(* What the remote session and the platform may deliver. *)

RejectMessages == {null, "", "Permission denied"}

Messages ==
    { Msg(<< Txt_hi >>, << >>, FALSE, 0, FALSE),
      Msg(<< >>, << Txt_Stop >>, FALSE, 0, FALSE),
      Msg(<< >>, << >>, TRUE, 0, FALSE),
      Msg(<< >>, << >>, FALSE, 1, FALSE),
      Msg(<< >>, << >>, FALSE, 0, TRUE),
      Msg(<< Txt_hi >>, << Txt_Stop >>, TRUE, 1, FALSE),
      Msg(<< Txt_hi >>, << Txt_ok >>, TRUE, 1, TRUE) }

(* The session lifecycle with every caller of stopAll, and the messages    *)
(* and decodes that may arrive at any point of it.                         *)
Next ==
    \/ Len(starts) < MaxStarts /\ StartSession
    \/ \E i \in Invocations : GetUserMediaResolve(i)
    \/ \E i \in Invocations, e \in RejectMessages : GetUserMediaReject(i, e)
    \/ \E i \in Invocations, e \in RejectMessages : ConnectReject(i, e)
    \/ \E i \in Invocations : OnOpen(i)
    \/ \E i \in Invocations : ConnectResolve(i)
    \/ StopButton
    \/ \E i \in Invocations : OnError(i)
    \/ \E i \in Invocations : OnClose(i)
    \/ Unmount
    \/ nmsg < MaxMsgs /\ \E i \in Invocations, m \in Messages : OnMessage(i, m)
    \/ \E h \in decoding : DecodeDone(h)

Spec == Init /\ [][Next]_vars

---------------------------------------------------------------------------
(* One session, started once and left open, receiving transcript messages. *)

TranscriptMessages ==
    { Msg(<< Txt_hi >>, << >>, FALSE, 0, FALSE),
      Msg(<< >>, << Txt_ok >>, FALSE, 0, FALSE),
      Msg(<< >>, << >>, TRUE, 0, FALSE),
      Msg(<< Txt_hi >>, << Txt_ok >>, TRUE, 0, FALSE) }

NextTranscript ==
    \/ Len(starts) < 1 /\ StartSession
    \/ \E i \in Invocations : GetUserMediaResolve(i)
    \/ \E i \in Invocations : OnOpen(i)
    \/ \E i \in Invocations : ConnectResolve(i)
    \/ nmsg < MaxTurnMsgs
         /\ \E i \in Invocations, m \in TranscriptMessages : OnMessage(i, m)

SpecTranscript == Init /\ [][NextTranscript]_vars

---------------------------------------------------------------------------
(* One session receiving audio chunks and interruptions while time passes. *)

AudioMessages ==
    { Msg(<< >>, << >>, FALSE, a, x) : a \in 0..MaxDur, x \in BOOLEAN }
        \ {NoMsg}

NextAudio ==
    \/ Len(starts) < 1 /\ StartSession
    \/ \E i \in Invocations : GetUserMediaResolve(i)
    \/ \E i \in Invocations : OnOpen(i)
    \/ \E i \in Invocations : ConnectResolve(i)
    \/ nmsg < MaxAudioMsgs
         /\ \E i \in Invocations, m \in AudioMessages : OnMessage(i, m)
    \/ \E h \in decoding : DecodeDone(h)
    \/ \E n \in sourcesRef : SourceEnded(n)
    \/ now < MaxAudioClock /\ Tick

SpecAudio == Init /\ [][NextAudio]_vars

---------------------------------------------------------------------------
(* The same session with one more message, so that a third handler can run *)
(* between the receipt and the start of an earlier chunk.                  *)

NextInterleave ==
    \/ Len(starts) < 1 /\ StartSession
    \/ \E i \in Invocations : GetUserMediaResolve(i)
    \/ \E i \in Invocations : OnOpen(i)
    \/ \E i \in Invocations : ConnectResolve(i)
    \/ nmsg < MaxInterleaveMsgs
         /\ \E i \in Invocations, m \in AudioMessages : OnMessage(i, m)
    \/ \E h \in decoding : DecodeDone(h)
    \/ \E n \in sourcesRef : SourceEnded(n)
    \/ now < MaxAudioClock /\ Tick

SpecInterleave == Init /\ [][NextInterleave]_vars

---------------------------------------------------------------------------
(* Sessions started, stopped and started again, with remote closes, and no *)
(* messages.                                                               *)

NextRestart ==
    \/ Len(starts) < MaxRestarts /\ StartSession
    \/ \E i \in Invocations : GetUserMediaResolve(i)
    \/ \E i \in Invocations : OnOpen(i)
    \/ \E i \in Invocations : ConnectResolve(i)
    \/ StopButton
    \/ \E i \in Invocations : OnClose(i)

SpecRestart == Init /\ [][NextRestart]_vars

---------------------------------------------------------------------------
(* One session receiving assistant text while time passes.  A message is   *)
(* delivered only while its timer can still run out within the clock's     *)
(* bound.  Time passes and a due timer callback runs: both are weakly      *)
(* fair.                                                                   *)

AlertMessages ==
    { Msg(<< >>, << o >>, FALSE, 0, FALSE) :
        o \in {Txt_STOP, Txt_ok, Txt_st, Txt_op, Txt_ting} }

AlertTick == now < MaxAlertClock /\ Tick

NextAlert ==
    \/ Len(starts) < 1 /\ StartSession
    \/ \E i \in Invocations : GetUserMediaResolve(i)
    \/ \E i \in Invocations : OnOpen(i)
    \/ \E i \in Invocations : ConnectResolve(i)
    \/ StopButton
    \/ nmsg < MaxAlertMsgs /\ now + AlertDelay <= MaxAlertClock
         /\ \E i \in Invocations, m \in AlertMessages : OnMessage(i, m)
    \/ AlertTimeout
    \/ AlertTick

SpecAlert ==
    Init /\ [][NextAlert]_vars /\ WF_vars(AlertTick) /\ WF_vars(AlertTimeout)

---------------------------------------------------------------------------
(* Properties. *)

\* What the accumulators hold once message m's fragments are added.
UserTextWith(m) ==
    IF m.inputTranscription # << >>
    THEN currentInputTransRef \o m.inputTranscription[1]
    ELSE currentInputTransRef

AssistantTextWith(m) ==
    IF m.outputTranscription # << >>
    THEN currentOutputTransRef \o m.outputTranscription[1]
    ELSE currentOutputTransRef

(* C1: the transcript history never holds more than 10 entries, and a      *)
(* turn-complete commit that overflows drops exactly the oldest entries:   *)
(* with k entries dropped, the old entries k+1.. are kept in their order   *)
(* in front of the new pair, and entries are dropped only to stay at 10.   *)
C1_HistoryCappedOldestFirst ==
    /\ [](Len(transcriptions) <= 10)
    /\ [][ \A i \in Invocations, m \in TranscriptMessages :
             (OnMessage(i, m) /\ m.turnComplete) =>
                LET old == transcriptions
                    new == transcriptions'
                    k == Len(old) + 2 - Len(new)
                IN  /\ k >= 0
                    /\ k > 0 => Len(new) = 10
                    /\ Len(new) >= 2
                    /\ \A j \in 1..(Len(new) - 2) : new[j] = old[j + k]
         ]_vars

\* Six or more commits have left ten entries, and the entries differ.
C1_Witness ==
    /\ nturns >= 6
    /\ Len(transcriptions) = 10
    /\ transcriptions[1].text # transcriptions[3].text
    /\ transcriptions[2].text # transcriptions[10].text

(* C2: a handled message with the turn-complete marker puts one user      *)
(* entry and then one assistant entry, holding the accumulated texts       *)
(* (empty or not), behind the old entries it keeps; a handled message      *)
(* without the marker leaves the history as it was.                        *)
C2_TurnCompleteAppendsPair ==
    [][ \A i \in Invocations, m \in TranscriptMessages :
          OnMessage(i, m) =>
             IF m.turnComplete
             THEN LET new == transcriptions'
                      n == Len(new)
                      kept == IF Len(transcriptions) <= 8 THEN transcriptions
                              ELSE SubSeq(transcriptions,
                                          Len(transcriptions) - 7,
                                          Len(transcriptions))
                  IN  /\ n = Len(kept) + 2
                      /\ SubSeq(new, 1, n - 2) = kept
                      /\ new[n - 1] = [role |-> "user", text |-> UserTextWith(m)]
                      /\ new[n] = [role |-> "assistant",
                                   text |-> AssistantTextWith(m)]
             ELSE transcriptions' = transcriptions
      ]_vars

\* A pair of two empty texts was committed behind a pair with text.
C2_Witness ==
    /\ nturns >= 2
    /\ Len(transcriptions) >= 4
    /\ LET n == Len(transcriptions) IN
       /\ transcriptions[n - 1] = [role |-> "user", text |-> << >>]
       /\ transcriptions[n] = [role |-> "assistant", text |-> << >>]
       /\ transcriptions[n - 3].text # << >>
       /\ transcriptions[n - 2].text # << >>

(* C3: a step that does not run the interrupted branch never lowers the    *)
(* scheduling cursor; in particular no receipt and no start of an audio    *)
(* chunk whose message carries no interruption lowers it.                  *)
C3_CursorNeverDecreases ==
    [][ /\ epoch' = epoch => nextStartTimeRef' >= nextStartTimeRef
        /\ \A i \in Invocations, m \in AudioMessages :
             (OnMessage(i, m) /\ m.audio # 0) =>
                nextStartTimeRef' >= nextStartTimeRef
        /\ \A h \in decoding :
             (DecodeDone(h) /\ ~h.msg.interrupted) =>
                nextStartTimeRef' > nextStartTimeRef
      ]_vars

\* Two chunks were started with no interruption: the cursor went from 0 up
\* to the clock for the first, and on by the durations.
C3_Witness ==
    /\ epoch = 0
    /\ Len(sched) >= 2
    /\ sched[1].when > 0
    /\ sched[2].when >= sched[1].when + sched[1].dur
    /\ nextStartTimeRef = sched[2].when + sched[2].dur

\* No interruption ran between the receipt and the start of node n.
Uninterrupted(n) == sched[n].rcvEpoch = sched[n].schedEpoch

(* C4 as stated: absent an interruption (and with no other handler at work *)
(* between its receipt and its start) every chunk starts at the value the  *)
(* cursor held before the chunk was received, whatever the clock.          *)
C4_StartIsPriorCursor ==
    \A n \in 1..Len(sched) :
        (Uninterrupted(n) /\ sched[n].clean) =>
            sched[n].when = sched[n].rcvCursor

(* C4, amended: absent an interruption between its receipt and its start,  *)
(* a chunk never starts before the larger of the cursor's value before the *)
(* receipt and the clock at the receipt, and it starts exactly there when  *)
(* no other handler touched the cursor in between; so it starts at the     *)
(* prior cursor only when the cursor was not behind the clock.             *)
C4_StartIsMaxOfCursorAndClock ==
    \A n \in 1..Len(sched) :
        Uninterrupted(n) =>
            /\ sched[n].when >= sched[n].rcvCursor
            /\ sched[n].when >= sched[n].rcvClock
            /\ sched[n].clean =>
                 sched[n].when = IF sched[n].rcvCursor >= sched[n].rcvClock
                                 THEN sched[n].rcvCursor
                                 ELSE sched[n].rcvClock

\* One chunk started at the clock (the cursor was behind), the next at the
\* prior cursor (the cursor was ahead).
C4_Witness ==
    /\ Len(sched) >= 2
    /\ Uninterrupted(1) /\ sched[1].clean
    /\ sched[1].rcvClock > sched[1].rcvCursor
    /\ sched[1].when = sched[1].rcvClock
    /\ Uninterrupted(2) /\ sched[2].clean
    /\ sched[2].rcvCursor > sched[2].rcvClock
    /\ sched[2].when = sched[2].rcvCursor

(* C5: when the handling of a message with the interruption marker ends    *)
(* (at once for a message without audio, after the decode for one with     *)
(* audio), the cursor is zero, the playback set is empty and stop() has    *)
(* been called on every source that was in the set, the message's own      *)
(* chunk included.                                                         *)
C5_InterruptionResets ==
    [][ /\ \A i \in Invocations, m \in AudioMessages :
             (OnMessage(i, m) /\ m.interrupted /\ m.audio = 0) =>
                /\ nextStartTimeRef' = 0
                /\ sourcesRef' = {}
                /\ sourcesRef \subseteq stopped'
        /\ \A h \in decoding :
             (DecodeDone(h) /\ h.msg.interrupted) =>
                /\ nextStartTimeRef' = 0
                /\ sourcesRef' = {}
                /\ sourcesRef \subseteq stopped'
                /\ Len(sched') \in stopped'
      ]_vars

\* A message with audio and the marker was handled to its end while an
\* earlier chunk was in the set: both are stopped, the cursor is zero.
C5_Witness ==
    /\ Len(sched) >= 2
    /\ sched[Len(sched)].interrupted
    /\ sched[Len(sched)].schedEpoch = epoch - 1
    /\ {Len(sched) - 1, Len(sched)} \subseteq stopped
    /\ sched[Len(sched) - 1].when + sched[Len(sched) - 1].dur > 0
    /\ nextStartTimeRef = 0
    /\ sourcesRef = {}

(* C9: of two chunks received and started in the same order with no        *)
(* interruption handled in between, the later starts no earlier than the   *)
(* earlier ends; and when they are started one right after the other and   *)
(* the cursor was not behind the clock at the later one's receipt, the     *)
(* later starts exactly where the earlier ends.                            *)
C9_ContiguousNonOverlapping ==
    \A a, b \in 1..Len(sched) :
        ( /\ a < b
          /\ sched[a].mid < sched[b].mid
          /\ sched[a].rcvEpoch = sched[b].schedEpoch ) =>
            /\ sched[a].when + sched[a].dur <= sched[b].when
            /\ (b = a + 1 /\ sched[b].rcvCursor >= sched[b].rcvClock) =>
                 sched[b].when = sched[a].when + sched[a].dur

\* The fragment holds a keyword, letter case set aside on both sides.
HoldsKeywordAnyCase(text) ==
    \E j \in 1..Len(dangerKeywords) :
        includes(toLowerCase(text), toLowerCase(dangerKeywords[j]))

(* C6: handling an assistant fragment that holds a keyword of the list,    *)
(* in any letter case, sets the alert in that same step; while the alert   *)
(* is set a timer is pending that runs out within the 3-second delay; and  *)
(* the alert, once set, is cleared again even if no message follows.       *)
C6_AlertRaisedThenSelfClears ==
    /\ [][ \A i \in Invocations, m \in AlertMessages :
             (OnMessage(i, m) /\ HoldsKeywordAnyCase(m.outputTranscription[1]))
                => safetyAlert' = TRUE
         ]_vars
    /\ [](safetyAlert =>
            /\ alertTimers # << >>
            /\ alertTimers[Len(alertTimers)] <= now + 3)
    /\ (safetyAlert ~> ~safetyAlert)

\* An upper-case keyword raised the alert and its timer, nothing else,
\* cleared it three seconds later: the session was never stopped.
C6_Witness ==
    /\ status = ACTIVE
    /\ nmsg = 1
    /\ currentOutputTransRef = Txt_STOP
    /\ alertTimers = << >>
    /\ ~safetyAlert
    /\ now >= 3

\* stopAll would change nothing here.
StopAllChangesNothing == stopAll(Cur) = Cur

\* The cells as stopAll leaves them.
TornDown ==
    /\ frameIntervalRef = 0
    /\ sessionRef = 0
    /\ sourcesRef = {}
    /\ status = IDLE
    /\ safetyAlert = FALSE

(* C7: in every reachable state stopAll would leave the frame timer        *)
(* cleared and its ref null, the session ref null, every source of the     *)
(* playback set stopped and the set empty, status idle and the alert       *)
(* false, and a second stopAll would change nothing; and every step of the *)
(* stop button, onerror, onclose and unmount ends in such a state.         *)
C7_StopAllTearsDownOnce ==
    /\ [] LET r == stopAll(Cur) IN
          /\ r.frameIntervalRef = 0
          /\ frameIntervalRef \notin r.liveIntervals
          /\ r.sessionRef = 0
          /\ r.sourcesRef = {}
          /\ sourcesRef \subseteq r.stopped
          /\ r.status = IDLE
          /\ r.safetyAlert = FALSE
          /\ stopAll(r) = r
    /\ [][ (StopButton \/ Unmount
              \/ \E i \in Invocations : OnError(i) \/ OnClose(i))
             => (TornDown' /\ StopAllChangesNothing')
         ]_vars

\* stopAll ran on a session that had a frame timer, a stored session, a
\* playing source and a raised alert, and a second stopAll ran after it.
C7_Witness ==
    /\ TornDown
    /\ micLive # {}
    /\ liveIntervals = {}
    /\ \E i \in Invocations : starts[i].pc = "done" /\ starts[i].conn = "closed"
    /\ epoch = 0
    /\ stopped # {}
    /\ alertTimers # << >>
    /\ ~mounted

(* C8: status changes only from idle to connecting, from connecting to     *)
(* active, from connecting to idle and from active to idle, and it becomes *)
(* connecting only in the first step of startSession.                      *)
C8_StatusTransitions ==
    [][ status' # status =>
          /\ << status, status' >> \in
               { << IDLE, CONNECTING >>, << CONNECTING, ACTIVE >>,
                 << CONNECTING, IDLE >>, << ACTIVE, IDLE >> }
          /\ status' = CONNECTING => StartSession
      ]_vars

(* C10: the catch block that handles a rejected media request or a         *)
(* rejected connection attempt leaves a non-null, non-empty error string   *)
(* and status idle; and startSession begins by setting the error string    *)
(* to null.                                                                *)
C10_StartFailureSurfaced ==
    [][ /\ \A i \in Invocations, e \in RejectMessages :
             (GetUserMediaReject(i, e) \/ ConnectReject(i, e)) =>
                /\ error' # null
                /\ error' # ""
                /\ error' = (IF e \in {null, ""} THEN FailedToStartText ELSE e)
                /\ status' = IDLE
        /\ StartSession => error' = null
      ]_vars

\* A media request was rejected with a message, the next invocation reset
\* the error, and its connection attempt was rejected without a message.
C10_Witness ==
    /\ Len(starts) = 2
    /\ starts[1] = [pc |-> "failed", conn |-> "none"]
    /\ starts[2] = [pc |-> "failed", conn |-> "closed"]
    /\ error = FailedToStartText
    /\ status = IDLE

(* C11: handling a remote connection error (onerror) or a remote close     *)
(* (onclose) leaves status idle and an error string that is not null; and  *)
(* status becomes connecting only by the user's start action.              *)
C11_RemoteEndSurfacesMessage ==
    [][ /\ \A i \in Invocations :
             (OnError(i) \/ OnClose(i)) =>
                /\ status' = IDLE
                /\ error' # null
        /\ (status' = CONNECTING /\ status # CONNECTING) => StartSession
      ]_vars

(* C12: of two chunks, the one whose message was delivered first is not    *)
(* started at a later time than the other, when no interruption was        *)
(* handled from the first delivery until both are started, whatever the    *)
(* order in which their decodes complete.                                  *)
C12_StartedInArrivalOrder ==
    \A a, b \in 1..Len(sched) :
        ( /\ sched[a].mid < sched[b].mid
          /\ sched[a].rcvEpoch = sched[a].schedEpoch
          /\ sched[a].rcvEpoch = sched[b].schedEpoch ) =>
            sched[a].when <= sched[b].when

(* C13: no chunk is started, or added to the playback set, after the       *)
(* interrupted branch has run for a message that was delivered after the   *)
(* chunk's own message; a chunk whose decode was in flight when that       *)
(* branch ran is included.                                                 *)
C13_InterruptionStopsPending ==
    \A n \in 1..Len(sched) : ~sched[n].cut

\* Invocation i of startSession has not finished: it waits for the media
\* request or for the connection promise.
InProgress(i) == starts[i].pc \in {"media", "connect"}

(* C14: at most one invocation of startSession is in progress at any time, *)
(* and a new invocation begins only when no earlier one is in progress.    *)
C14_OneStartInProgress ==
    Cardinality({i \in Invocations : InProgress(i)}) <= 1

(* C15: a handled message adds its input fragment to the user accumulator  *)
(* and its output fragment to the assistant accumulator, each behind what  *)
(* the accumulator held and neither reaching the other channel; with the   *)
(* turn-complete marker the two accumulated texts, the message's own       *)
(* fragments included, are the committed pair and both accumulators are    *)
(* empty afterwards; and nothing but a handled message changes an          *)
(* accumulator.  So the committed texts are the fragments received since   *)
(* the previous commit, in arrival order.                                  *)
C15_TurnTextIsFragmentsSinceLastCommit ==
    [][ /\ \A i \in Invocations, m \in TranscriptMessages :
             OnMessage(i, m) =>
                IF m.turnComplete
                THEN LET n == Len(transcriptions') IN
                     /\ n >= 2
                     /\ transcriptions'[n - 1].role = "user"
                     /\ transcriptions'[n - 1].text = UserTextWith(m)
                     /\ transcriptions'[n].role = "assistant"
                     /\ transcriptions'[n].text = AssistantTextWith(m)
                     /\ currentInputTransRef' = << >>
                     /\ currentOutputTransRef' = << >>
                ELSE /\ currentInputTransRef' = UserTextWith(m)
                     /\ currentOutputTransRef' = AssistantTextWith(m)
        /\ (\/ currentInputTransRef' # currentInputTransRef
            \/ currentOutputTransRef' # currentOutputTransRef) =>
               \E i \in Invocations, m \in TranscriptMessages : OnMessage(i, m)
      ]_vars

\* A turn was committed whose user text is two fragments, the second one
\* carried by the turn-complete message itself, and whose assistant text is
\* one fragment; the accumulators are empty.
C15_Witness ==
    /\ nturns >= 1
    /\ Len(transcriptions) >= 2
    /\ transcriptions[Len(transcriptions) - 1] =
         [role |-> "user", text |-> Txt_hi \o Txt_hi]
    /\ transcriptions[Len(transcriptions)] =
         [role |-> "assistant", text |-> Txt_ok]
    /\ currentInputTransRef = << >>
    /\ currentOutputTransRef = << >>

(* C16: every run of stopAll (stop button, onerror, onclose, unmount)      *)
(* leaves the transcript history empty, both accumulators empty, the       *)
(* scheduling cursor zero and the playback set empty.                      *)
C16_StateDiscardedOnStop ==
    [][ (StopButton \/ Unmount
           \/ \E i \in Invocations : OnError(i) \/ OnClose(i)) =>
          /\ transcriptions' = << >>
          /\ currentInputTransRef' = << >>
          /\ currentOutputTransRef' = << >>
          /\ nextStartTimeRef' = 0
          /\ sourcesRef' = {}
      ]_vars

(* C17: at most one alert-clear timer is pending at a time, and a timer    *)
(* that clears a raised alert is the timer of the latest keyword match: no *)
(* timer of an earlier match clears the alert before the delay since the   *)
(* latest match has passed.                                                *)
C17_MatchRearmsOneTimer ==
    /\ [](Len(alertTimers) <= 1)
    /\ [][ (AlertTimeout /\ safetyAlert) =>
              now >= alertTimers[Len(alertTimers)]
         ]_vars

(* C18: in every reachable state with status idle no frame timer is        *)
(* scheduled, the playback set is empty and the safety alert is false.     *)
C18_IdleIsTornDown ==
    status = IDLE =>
        /\ liveIntervals = {}
        /\ frameIntervalRef = 0
        /\ sourcesRef = {}
        /\ safetyAlert = FALSE

\* The microphone callback of session i (scriptProcessor.onaudioprocess,
\* lines 110-116) sends a buffer whenever one is captured: it was wired by
\* onopen, the session promise is resolved and the connection is open.
SendsAudio(i) ==
    i \in micLive /\ starts[i].pc = "done" /\ starts[i].conn = "open"

\* The frame interval of session i (lines 120-143) sends a frame at every
\* period: the interval is scheduled, the promise resolved, the connection
\* open.
SendsFrame(i) ==
    i \in liveIntervals /\ starts[i].pc = "done" /\ starts[i].conn = "open"

(* C19: from a run of stopAll until a later onopen (status is not active)  *)
(* no session is sent media: neither a frame of the frame loop nor a       *)
(* buffer of the microphone.                                               *)
C19_NoMediaSentAfterStop ==
    status # ACTIVE =>
        \A i \in Invocations : ~SendsAudio(i) /\ ~SendsFrame(i)

(* C20: at most one frame interval is scheduled at any time, and a         *)
(* scheduled interval is the one recorded in frameIntervalRef, so that     *)
(* stopAll can clear it.                                                   *)
C20_OneFrameTimer ==
    /\ Cardinality(liveIntervals) <= 1
    /\ liveIntervals \subseteq {frameIntervalRef}

\* A callback of session i runs: its onopen, onerror or onclose, its
\* onmessage (up to the await or after it), or the completion of its
\* startSession (the continuation of the await, or the catch block).
CallbackOf(i) ==
    \/ OnOpen(i)
    \/ OnError(i)
    \/ OnClose(i)
    \/ ConnectResolve(i)
    \/ \E e \in RejectMessages : ConnectReject(i, e)
    \/ \E m \in Messages : OnMessage(i, m)
    \/ \E h \in decoding : h.sid = i /\ DecodeDone(h)

(* C21, for the first two sessions: once the second startSession has       *)
(* begun, which it can only after the first session was stopped, no        *)
(* callback of the first session changes status, the frame timer, the      *)
(* playback set, the cursor, the transcript or the alert.                  *)
C21_StaleCallbacksChangeNothing ==
    [][ (Len(starts) = 2 /\ CallbackOf(1)) =>
          UNCHANGED << status, frameIntervalRef, liveIntervals, sourcesRef,
                       nextStartTimeRef, transcriptions, safetyAlert >>
      ]_vars

(* C22: in every reachable state the history has an even length, its      *)
(* entries at the odd positions 1, 3, ... (the source's indices 0, 2, ...) *)
(* have role user and those at the even positions role assistant: the      *)
(* history is whole pairs, also after trimming to 10.                      *)
C22_HistoryIsWholePairs ==
    /\ Len(transcriptions) % 2 = 0
    /\ \A j \in 1..Len(transcriptions) :
          transcriptions[j].role = IF j % 2 = 1 THEN "user" ELSE "assistant"

\* The history was trimmed at least twice and holds ten entries: the first
\* is a user entry that was once the third, the last an assistant entry.
C22_Witness ==
    /\ nturns >= 7
    /\ Len(transcriptions) = 10
    /\ transcriptions[1].role = "user"
    /\ transcriptions[10].role = "assistant"

(* C23: status is never ERROR in any reachable state, and every failure    *)
(* path (the catch block of startSession, onerror, onclose) ends with      *)
(* status idle.                                                            *)
C23_StatusNeverError ==
    /\ [](status \in AppStatus /\ status # ERROR)
    /\ [][ (\E i \in Invocations :
              \/ OnError(i)
              \/ OnClose(i)
              \/ \E e \in RejectMessages :
                    GetUserMediaReject(i, e) \/ ConnectReject(i, e))
             => status' = IDLE
         ]_vars

\* Both kinds of failure have happened: the first session's connection was
\* ended by onerror or onclose, the second start failed in the catch block
\* with the fallback text; status is idle.
C23_Witness ==
    /\ Len(starts) = 2
    /\ starts[1].conn = "closed"
    /\ starts[1].pc \in {"connect", "done"}
    /\ starts[2].pc = "failed"
    /\ error = FailedToStartText
    /\ status = IDLE

=============================================================================
